---- MODULE Spec2Model ----
(***************************************************************************)
(* Model of the masking / unmasking engine of sensitive-data-protector:    *)
(*   PrivacyGateway   (src/privacy_gateway.py)   pattern-based masker      *)
(*   LocalLLMGateway  (src/local_llm_gateway.py) model-assisted masker     *)
(* A text is a sequence of one-character strings.  A dict is a sequence of *)
(* records [k, v] in insertion order (Python dicts keep insertion order).  *)
(***************************************************************************)
EXTENDS Integers, Sequences, FiniteSets, TLC

(***************************************************************************)
(* Characters and character classes of the regular expressions.            *)
(***************************************************************************)
LowerSeq == << "a","b","c","d","e","f","g","h","i","j","k","l","m",
               "n","o","p","q","r","s","t","u","v","w","x","y","z" >>
UpperSeq == << "A","B","C","D","E","F","G","H","I","J","K","L","M",
               "N","O","P","Q","R","S","T","U","V","W","X","Y","Z" >>
DigitSeq == << "0","1","2","3","4","5","6","7","8","9" >>

Range(s) == { s[i] : i \in DOMAIN s }

Lower  == Range(LowerSeq)
Upper  == Range(UpperSeq)
Letter == Lower \cup Upper
Digit  == Range(DigitSeq)                     \* \d
Space  == { " ", "\n", "\t" }                 \* \s
Word   == Letter \cup Digit \cup { "_" }      \* \w

\* str.upper() on one character, then on a string
UpperChar(c) ==
    IF c \in Lower THEN UpperSeq[CHOOSE i \in DOMAIN LowerSeq : LowerSeq[i] = c]
    ELSE c
upper(s) == [ i \in DOMAIN s |-> UpperChar(s[i]) ]

\* str(n) for a non-negative integer: its decimal digits
RECURSIVE str(_)
str(n) == IF n < 10 THEN << DigitSeq[n + 1] >>
          ELSE str(n \div 10) \o << DigitSeq[(n % 10) + 1] >>

(***************************************************************************)
(* Python string primitives: slicing, "in", str.replace.                   *)
(***************************************************************************)
\* s[a-1 : b-1] in Python terms: the characters at 1-based positions a .. b-1
Slice(s, a, b) == SubSeq(s, a, b - 1)

\* s startswith p at 1-based position i
StartsAt(s, p, i) ==
    /\ i + Len(p) - 1 <= Len(s)
    /\ \A j \in 1..Len(p) : s[i + j - 1] = p[j]

\* "p in s"
Contains(s, p) == \E i \in 1..(Len(s) + 1) : StartsAt(s, p, i)

\* the least element of a non-empty set of integers
Min(S) == CHOOSE x \in S : \A y \in S : x <= y

\* s.replace(old, new): every non-overlapping occurrence, left to right;
\* an empty old is found before every character and at the end
RECURSIVE ReplaceFrom(_, _, _, _, _)
ReplaceFrom(s, old, new, occ, i) ==
    LET next == { j \in occ : j >= i }
    IN  IF next = {} THEN Slice(s, i, Len(s) + 1)
        ELSE Slice(s, i, Min(next)) \o new
             \o ReplaceFrom(s, old, new, occ, Min(next) + Len(old))
replace(s, old, new) ==
    IF old = <<>>
    THEN LET L == Len(new) + 1
         IN  [ k \in 1..(Len(s) * L + Len(new)) |->
                 IF (k - 1) % L < Len(new) THEN new[((k - 1) % L) + 1]
                 ELSE s[((k - 1) \div L) + 1] ]
    ELSE ReplaceFrom(s, old, new,
                     { j \in 1..Len(s) : StartsAt(s, old, j) }, 1)

(***************************************************************************)
(* Python dict as an insertion-ordered sequence of [k, v].                 *)
(***************************************************************************)
Keys(d)   == { d[i].k : i \in DOMAIN d }
Values(d) == { d[i].v : i \in DOMAIN d }
\* d[k] = v : overwrite in place when k is present, append otherwise
DictSet(d, k, v) ==
    IF k \in Keys(d)
    THEN [ i \in DOMAIN d |-> IF d[i].k = k THEN [k |-> k, v |-> v] ELSE d[i] ]
    ELSE Append(d, [k |-> k, v |-> v])

(***************************************************************************)
(* A backtracking matcher for the regular expressions of the source.       *)
(* A pattern is a sequence of items                                        *)
(*   Cls(S, lo, hi)  a character of class S, lo..hi times, greedy          *)
(*                   (hi = -1: unbounded)                                  *)
(*   WB              \b                                                    *)
(*   Mark            the boundary between capture group 1 and group 2      *)
(*   Opt(sub)        (?: sub )?  greedy                                    *)
(* Match gives << end, mark >> for the first successful path in the        *)
(* engine's preference order, << >> when there is none.                    *)
(***************************************************************************)
Cls(S, lo, hi) == [k |-> "cls", cls |-> S, lo |-> lo, hi |-> hi, sub |-> <<>>]
WB             == [k |-> "wb", cls |-> {}, lo |-> 0, hi |-> 0, sub |-> <<>>]
Mark           == [k |-> "mark", cls |-> {}, lo |-> 0, hi |-> 0, sub |-> <<>>]
Opt(sub)       == [k |-> "opt", cls |-> {}, lo |-> 0, hi |-> 0, sub |-> sub]
One(S)         == Cls(S, 1, 1)
Maybe(S)       == Cls(S, 0, 1)
\* a literal character under (?i)
CI(c)          == One({ d \in Letter \cup {c} : UpperChar(d) = UpperChar(c) })

WordBoundary(text, pos) ==
    LET before == pos > 1 /\ text[pos - 1] \in Word
        after  == pos <= Len(text) /\ text[pos] \in Word
    IN  before # after

\* the longest run of class S starting at pos, at most hi characters
RECURSIVE RunLen(_, _, _, _)
RunLen(text, pos, S, hi) ==
    IF hi = 0 \/ pos > Len(text) \/ text[pos] \notin S THEN 0
    ELSE 1 + RunLen(text, pos + 1, S, IF hi < 0 THEN hi ELSE hi - 1)

RECURSIVE Match(_, _, _, _)
RECURSIVE TryCount(_, _, _, _, _, _)
TryCount(n, lo, rest, text, pos, mark) ==
    IF n < lo THEN <<>>
    ELSE LET r == Match(rest, text, pos + n, mark)
         IN  IF r # <<>> THEN r
             ELSE TryCount(n - 1, lo, rest, text, pos, mark)
Match(pat, text, pos, mark) ==
    IF Len(pat) = 0 THEN << pos, mark >>
    ELSE LET it   == Head(pat)
             rest == Tail(pat)
         IN  CASE it.k = "wb" ->
                    IF WordBoundary(text, pos)
                    THEN Match(rest, text, pos, mark) ELSE <<>>
               [] it.k = "mark" -> Match(rest, text, pos, pos)
               [] it.k = "opt" ->
                    LET r == Match(it.sub \o rest, text, pos, mark)
                    IN  IF r # <<>> THEN r ELSE Match(rest, text, pos, mark)
               [] it.k = "cls" ->
                    TryCount(RunLen(text, pos, it.cls, it.hi), it.lo,
                             rest, text, pos, mark)

\* re.finditer: the leftmost non-overlapping matches, as records
\* [s, e, m]: the match is text[s .. e-1], group 2 (if any) starts at m
\* (no pattern of the source matches the empty string)
RECURSIVE FindFrom(_, _, _, _)
FindFrom(pat, text, starts, i) ==
    LET next == { j \in starts : j >= i }
    IN  IF next = {} THEN <<>>
        ELSE LET r == Match(pat, text, Min(next), Min(next))
             IN  << [s |-> Min(next), e |-> r[1], m |-> r[2]] >>
                 \o FindFrom(pat, text, starts, r[1])
finditer(pat, text) ==
    FindFrom(pat, text,
             { j \in 1..Len(text) : Len(Match(pat, text, j, j)) > 0 }, 1)

\* re.sub(pattern, repl, text) with a callback that changes the instance:
\* the matches are found on the input text, repl is called once per match
\* in left-to-right order, the text between matches is copied
RECURSIVE repl_call(_, _, _, _)
RECURSIVE SubFrom(_, _, _, _, _, _)
SubFrom(repl, ms, j, text, pos, self) ==
    IF j > Len(ms) THEN [out |-> Slice(text, pos, Len(text) + 1), self |-> self]
    ELSE LET r == repl_call(repl, self, text, ms[j])
             t == SubFrom(repl, ms, j + 1, text, ms[j].e, r.self)
         IN  [out  |-> Slice(text, pos, ms[j].s) \o r.out \o t.out,
              self |-> t.self]
re_sub(pat, repl, text, self) ==
    SubFrom(repl, finditer(pat, text), 1, text, 1, self)

(***************************************************************************)
(* PrivacyGateway                                                          *)
(***************************************************************************)
credit_card == << "c","r","e","d","i","t","_","c","a","r","d" >>
ssn         == << "s","s","n" >>
email       == << "e","m","a","i","l" >>
phone       == << "p","h","o","n","e" >>
name        == << "n","a","m","e" >>
PGTypes     == { credit_card, ssn, email, phone, name }

\* __init__
PrivacyGateway == [ mapping  |-> <<>>,
                    counters |-> [ t \in PGTypes |-> 0 ] ]

\* reset that clears the mapping and forgets to zero the counters
reset_keeps_counters(self) == [ mapping |-> <<>>, counters |-> self.counters ]
reset(self) == [ mapping  |-> <<>>,
                 counters |-> [ t \in DOMAIN self.counters |-> 0 ] ]

\* the instance after the increment, and the placeholder
_create_placeholder(self, pii_type) ==
    LET n == self.counters[pii_type] + 1
    IN  [ self |-> [ self EXCEPT !.counters[pii_type] = n ],
          placeholder |-> << "[" >> \o upper(pii_type) \o << "_" >>
                          \o str(n) \o << "]" >> ]

\* the body shared by the replace callbacks that always mask
MaskAs(self, pii_type, original) ==
    LET c == _create_placeholder(self, pii_type)
    IN  [ self |-> [ c.self EXCEPT
                       !.mapping = DictSet(@, c.placeholder, original) ],
          out  |-> c.placeholder ]

SepDashSpace == { "-" } \cup Space
credit_card_pattern ==
    << WB, Cls(Digit, 4, 4), Maybe(SepDashSpace), Cls(Digit, 4, 4),
       Maybe(SepDashSpace), Cls(Digit, 4, 4), Maybe(SepDashSpace),
       Cls(Digit, 1, 7), WB >>
replace_credit_card(self, text, m) ==
    MaskAs(self, credit_card, Slice(text, m.s, m.e))
_mask_credit_cards(self, text) ==
    re_sub(credit_card_pattern, "replace_credit_card", text, self)

ssn_pattern ==
    << WB, Cls(Digit, 3, 3), Maybe(SepDashSpace), Cls(Digit, 2, 2),
       Maybe(SepDashSpace), Cls(Digit, 4, 4), WB >>
\* re.sub(r'[-\s]', '', original)
digits_only(original) == SelectSeq(original, LAMBDA c : c \notin SepDashSpace)
replace_ssn(self, text, m) ==
    LET original == Slice(text, m.s, m.e)
    IN  IF Len(digits_only(original)) = 9
        THEN MaskAs(self, ssn, original)
        ELSE [ self |-> self, out |-> original ]
_mask_ssn(self, text) == re_sub(ssn_pattern, "replace_ssn", text, self)

EmailLocal  == Letter \cup Digit \cup { ".", "_", "%", "+", "-" }
EmailDomain == Letter \cup Digit \cup { ".", "-" }
email_pattern ==
    << WB, Cls(EmailLocal, 1, -1), One({"@"}), Cls(EmailDomain, 1, -1),
       One({"."}), Cls(Letter, 2, -1), WB >>
replace_email(self, text, m) == MaskAs(self, email, Slice(text, m.s, m.e))
_mask_emails(self, text) == re_sub(email_pattern, "replace_email", text, self)

SepPhone == { "-", "." } \cup Space
phone_pattern ==
    << WB, Maybe({"("}), Cls(Digit, 3, 3), Maybe({")"}), Maybe(SepPhone),
       Cls(Digit, 3, 3), Maybe(SepPhone), Cls(Digit, 4, 4), WB >>
SSNOpen == << "[", "S", "S", "N", "_" >>
\* replace callback that looks for "[SSN_" in the whole text
replace_phone_anywhere(self, text, m) ==
    LET original == Slice(text, m.s, m.e)
    IN  IF ~ Contains(text, SSNOpen)
        THEN MaskAs(self, phone, original)
        ELSE [ self |-> self, out |-> original ]
replace_phone(self, text, m) ==
    LET original == Slice(text, m.s, m.e)
    IN  IF ~ Contains(Slice(text, 1, m.s), SSNOpen)
        THEN MaskAs(self, phone, original)
        ELSE [ self |-> self, out |-> original ]
_mask_phone_numbers(self, text) ==
    re_sub(phone_pattern, "replace_phone", text, self)

\* ([A-Z][a-z]+(?:\s+[A-Z][a-z]+)?) under (?i)
NameSpan == << Mark, One(Letter), Cls(Letter, 1, -1),
               Opt(<< Cls(Space, 1, -1), One(Letter), Cls(Letter, 1, -1) >>) >>
Lit(s) == [ i \in DOMAIN s |-> CI(s[i]) ]
name_patterns ==
    << Lit(<< "m","y"," ","n","a","m","e"," ","i","s" >>)
         \o << Cls(Space, 1, -1) >> \o NameSpan,
       << CI("I"), Maybe({"'"}), CI("m"), Cls(Space, 1, -1) >> \o NameSpan,
       Lit(<< "I"," ","a","m" >>) \o << Cls(Space, 1, -1) >> \o NameSpan,
       Lit(<< "n","a","m","e",":" >>) \o << Cls(Space, 0, -1) >> \o NameSpan >>
\* replace callback that returns the placeholder without the lead-in
replace_name_without_prefix(self, text, m) ==
    LET r == MaskAs(self, name, Slice(text, m.m, m.e))
    IN  [ self |-> r.self, out |-> r.out ]
replace_name(self, text, m) ==
    LET r == MaskAs(self, name, Slice(text, m.m, m.e))
    IN  [ self |-> r.self, out |-> Slice(text, m.s, m.m) \o r.out ]
RECURSIVE NamesFrom(_, _, _)
NamesFrom(self, text, i) ==
    IF i > Len(name_patterns) THEN [ out |-> text, self |-> self ]
    ELSE LET r == re_sub(name_patterns[i], "replace_name", text, self)
         IN  NamesFrom(r.self, r.out, i + 1)
_mask_names(self, text) == NamesFrom(self, text, 1)

\* the call re.sub makes to the replace function of the scan it runs for
repl_call(repl, self, text, m) ==
    CASE repl = "replace_credit_card" -> replace_credit_card(self, text, m)
      [] repl = "replace_ssn"         -> replace_ssn(self, text, m)
      [] repl = "replace_email"       -> replace_email(self, text, m)
      [] repl = "replace_phone"       -> replace_phone(self, text, m)
      [] repl = "replace_name"        -> replace_name(self, text, m)

\* mask that empties self.mapping in place and returns it without a copy
PGmask_shared(self, text) ==
    LET returned(s5) ==
            [ self |-> s5.self, raised |-> "", masked_text |-> s5.out,
              mapping |-> s5.self.mapping, rebinds |-> FALSE, copy |-> FALSE ]
        names(s4)  == returned(_mask_names(s4.self, s4.out))
        phones(s3) == names(_mask_phone_numbers(s3.self, s3.out))
        emails(s2) == phones(_mask_emails(s2.self, s2.out))
        ssns(s1)   == emails(_mask_ssn(s1.self, s1.out))
    IN  ssns(_mask_credit_cards(reset(self), text))
\* PrivacyGateway.mask: the instance afterwards, the masked text and the
\* mapping handed to the caller; rebinds: reset bound self.mapping to a new
\* dict; copy: the returned mapping is a copy, not self.mapping itself
PGmask(self, text) ==
    LET returned(s5) ==
            [ self |-> s5.self, raised |-> "", masked_text |-> s5.out,
              mapping |-> s5.self.mapping, rebinds |-> TRUE, copy |-> TRUE ]
        names(s4)  == returned(_mask_names(s4.self, s4.out))
        phones(s3) == names(_mask_phone_numbers(s3.self, s3.out))
        emails(s2) == phones(_mask_emails(s2.self, s2.out))
        ssns(s1)   == emails(_mask_ssn(s1.self, s1.out))
    IN  ssns(_mask_credit_cards(reset(self), text))

\* unmask that looks for a placeholder without its closing bracket
RECURSIVE UnmaskPrefixFrom(_, _, _)
UnmaskPrefixFrom(text, mapping, i) ==
    IF i > Len(mapping) THEN text
    ELSE UnmaskPrefixFrom(
           replace(text, SubSeq(mapping[i].k, 1, Len(mapping[i].k) - 1),
                   mapping[i].v),
           mapping, i + 1)
unmask_prefix(text, mapping) == UnmaskPrefixFrom(text, mapping, 1)
\* unmask (both classes): mapping.items() in insertion order
RECURSIVE UnmaskFrom(_, _, _)
UnmaskFrom(text, mapping, i) ==
    IF i > Len(mapping) THEN text
    ELSE UnmaskFrom(replace(text, mapping[i].k, mapping[i].v), mapping, i + 1)
unmask(text, mapping) == UnmaskFrom(text, mapping, 1)


(***************************************************************************)
(* JSON values, as json.loads builds them:                                 *)
(*   [t |-> "str",  v |-> text]      [t |-> "num",  v |-> integer]         *)
(*   [t |-> "null", v |-> 0]         [t |-> "bool", v |-> 0 or 1]          *)
(*   [t |-> "list", v |-> sequence of values]                              *)
(*   [t |-> "obj",  v |-> dict of [k |-> text, v |-> value]]               *)
(* json.loads is modelled on the grammar of objects, arrays, strings       *)
(* without escapes, non-negative integers and the three literals.          *)
(***************************************************************************)
JStr(x)  == [t |-> "str",  v |-> x]
JNum(n)  == [t |-> "num",  v |-> n]
JNull    == [t |-> "null", v |-> 0]
JBool(b) == [t |-> "bool", v |-> IF b THEN 1 ELSE 0]
JList(l) == [t |-> "list", v |-> l]
JObj(d)  == [t |-> "obj",  v |-> d]

JsonSpace == { " ", "\n", "\t" }
Punct == { "-", ".", ",", ":", ";", "@", "(", ")", "[", "]", "{", "}",
           "'", "\"", "%", "+" }
Chars == Word \cup Space \cup Punct            \* [\s\S] within the model

RECURSIVE SkipWs(_, _)
SkipWs(s, i) == IF i <= Len(s) /\ s[i] \in JsonSpace THEN SkipWs(s, i + 1) ELSE i

Fail == [ok |-> FALSE, val |-> JNull, pos |-> 0]
Ok(v, i) == [ok |-> TRUE, val |-> v, pos |-> i]

\* the value of a run of digits
RECURSIVE DigitsValue(_, _, _, _)
DigitsValue(s, i, n, acc) ==
    IF n = 0 THEN acc
    ELSE DigitsValue(s, i + 1, n - 1,
             acc * 10 + (CHOOSE d \in 0..9 : DigitSeq[d + 1] = s[i]))

Literals == << [w |-> << "n","u","l","l" >>,     v |-> JNull],
               [w |-> << "t","r","u","e" >>,     v |-> JBool(TRUE)],
               [w |-> << "f","a","l","s","e" >>, v |-> JBool(FALSE)] >>

\* a string body from i (just after the opening quote): the position of
\* the closing quote, 0 when the string does not end or holds a character
\* that needs an escape
RECURSIVE StringEnd(_, _)
StringEnd(s, i) ==
    IF i > Len(s) \/ s[i] \in { "\n", "\t" } THEN 0
    ELSE IF s[i] = "\"" THEN i
    ELSE StringEnd(s, i + 1)

RECURSIVE ParseValue(_, _)
RECURSIVE ParseElements(_, _, _)
RECURSIVE ParseMembers(_, _, _)
\* array elements after "[" or ",": i is at the start of an element
ParseElements(s, i, acc) ==
    LET r == ParseValue(s, SkipWs(s, i))
    IN  IF ~ r.ok THEN Fail
        ELSE LET j == SkipWs(s, r.pos)
             IN  IF j > Len(s) THEN Fail
                 ELSE IF s[j] = "," THEN ParseElements(s, j + 1, Append(acc, r.val))
                 ELSE IF s[j] = "]" THEN Ok(JList(Append(acc, r.val)), j + 1)
                 ELSE Fail
\* object members after "{" or ",": i is at the start of a key
ParseMembers(s, i, acc) ==
    LET a == SkipWs(s, i)
    IN  IF a > Len(s) \/ s[a] # "\"" THEN Fail
        ELSE LET q == StringEnd(s, a + 1)
             IN  IF q = 0 THEN Fail
                 ELSE LET c == SkipWs(s, q + 1)
                      IN  IF c > Len(s) \/ s[c] # ":" THEN Fail
                          ELSE LET r == ParseValue(s, SkipWs(s, c + 1))
                                   d == DictSet(acc, Slice(s, a + 1, q), r.val)
                                   j == SkipWs(s, r.pos)
                               IN  IF ~ r.ok \/ j > Len(s) THEN Fail
                                   ELSE IF s[j] = "," THEN ParseMembers(s, j + 1, d)
                                   ELSE IF s[j] = "}" THEN Ok(JObj(d), j + 1)
                                   ELSE Fail
ParseValue(s, i) ==
    IF i > Len(s) THEN Fail
    ELSE IF s[i] = "\"" THEN
        LET q == StringEnd(s, i + 1)
        IN  IF q = 0 THEN Fail ELSE Ok(JStr(Slice(s, i + 1, q)), q + 1)
    ELSE IF s[i] \in Digit THEN
        LET n == IF s[i] = "0" THEN 1 ELSE RunLen(s, i, Digit, -1)
        IN  Ok(JNum(DigitsValue(s, i, n, 0)), i + n)
    ELSE IF s[i] = "[" THEN
        LET j == SkipWs(s, i + 1)
        IN  IF j <= Len(s) /\ s[j] = "]" THEN Ok(JList(<<>>), j + 1)
            ELSE ParseElements(s, i + 1, <<>>)
    ELSE IF s[i] = "{" THEN
        LET j == SkipWs(s, i + 1)
        IN  IF j <= Len(s) /\ s[j] = "}" THEN Ok(JObj(<<>>), j + 1)
            ELSE ParseMembers(s, i + 1, <<>>)
    ELSE IF \E l \in DOMAIN Literals : StartsAt(s, Literals[l].w, i) THEN
        LET l == CHOOSE l \in DOMAIN Literals : StartsAt(s, Literals[l].w, i)
        IN  Ok(Literals[l].v, i + Len(Literals[l].w))
    ELSE Fail

\* json.loads: one value, surrounded by whitespace only; ok = FALSE stands
\* for json.JSONDecodeError
json_loads(s) ==
    LET r == ParseValue(s, SkipWs(s, 1))
    IN  IF r.ok /\ SkipWs(s, r.pos) = Len(s) + 1 THEN r ELSE Fail


(***************************************************************************)
(* LocalLLMGateway                                                         *)
(***************************************************************************)
\* __init__ (model and ollama_url are configuration, left out)
LocalLLMGateway == [ mapping |-> <<>> ]

\* re.search(r'\{[\s\S]*\}', response)
json_pattern == << One({"{"}), Cls(Chars, 0, -1), One({"}"}) >>

\* the eight categories the prompt of detect_pii asks for
FixedCategories ==
    { << "c", "r", "e", "d", "i", "t", "_", "c", "a", "r", "d", "s" >>,
      << "s", "s", "n" >>,
      << "e", "m", "a", "i", "l", "s" >>,
      << "p", "h", "o", "n", "e", "s" >>,
      << "n", "a", "m", "e", "s" >>,
      << "a", "d", "d", "r", "e", "s", "s", "e", "s" >>,
      << "d", "a", "t", "e", "s", "_", "o", "f", "_", "b", "i", "r", "t", "h" >>,
      << "a", "c", "c", "o", "u", "n", "t", "_", "n", "u", "m", "b", "e", "r", "s" >> }

\* _call_ollama that gives an empty reply when the request fails
_call_ollama_swallowed(outcome) ==
    [ raised   |-> "",
      response |-> IF outcome.ok THEN outcome.response ELSE <<>>,
      posts    |-> 1 ]
\* _call_ollama seen from its caller: the request either fails at transport
\* level (RuntimeError) or gives the reply text; one request is issued
_call_ollama(outcome) ==
    [ raised   |-> IF outcome.ok THEN "" ELSE "RuntimeError",
      response |-> IF outcome.ok THEN outcome.response ELSE <<>>,
      posts    |-> 1 ]

\* the try block of detect_pii: the dict parsed out of the reply
extract_json(response) ==
    LET ms == finditer(json_pattern, response)
    IN  IF Len(ms) > 0
        THEN LET r == json_loads(Slice(response, ms[1].s, ms[1].e))
             IN  IF r.ok THEN r.val.v ELSE <<>>
        ELSE <<>>

detect_pii(outcome) ==
    LET c == _call_ollama(outcome)
    IN  [ raised   |-> c.raised,
          detected |-> IF c.raised = "" THEN extract_json(c.response) ELSE <<>>,
          posts    |-> c.posts ]

\* Python truthiness of a JSON value
Truthy(x) ==
    CASE x.t = "null" -> FALSE
      [] x.t = "bool" -> x.v = 1
      [] x.t = "num"  -> x.v # 0
      [] OTHER        -> Len(x.v) > 0

\* "for value in values": whether the value can be iterated, and its items
Iterable(x) == x.t \in { "str", "list", "obj" }
Items(x) ==
    CASE x.t = "str"  -> [ i \in DOMAIN x.v |-> JStr(<< x.v[i] >>) ]
      [] x.t = "list" -> x.v
      [] x.t = "obj"  -> [ i \in DOMAIN x.v |-> JStr(x.v[i].k) ]

\* d[k] of a dict
DictGet(d, k) == d[CHOOSE i \in DOMAIN d : d[i].k = k].v

\* the placeholder of the model-assisted masker
LLMPlaceholder(pii_type, n) ==
    << "[" >> \o upper(pii_type) \o << "_" >> \o str(n) \o << "]" >>

\* inner loop that takes a counter number for a value it does not find
RECURSIVE MaskValues_counts_absent(_, _, _, _)
MaskValues_counts_absent(st, pii_type, items, j) ==
    IF j > Len(items) \/ st.raised # "" THEN st
    ELSE LET value == items[j]
             n == DictGet(st.counters, pii_type) + 1
             placeholder == LLMPlaceholder(pii_type, n)
         IN  IF ~ Truthy(value)
             THEN MaskValues_counts_absent(st, pii_type, items, j + 1)
             ELSE IF value.t # "str"
             THEN [ st EXCEPT !.raised = "TypeError" ]
             ELSE IF ~ Contains(st.masked_text, value.v)
             THEN MaskValues_counts_absent(
                    [ st EXCEPT !.counters = DictSet(@, pii_type, n) ],
                    pii_type, items, j + 1)
             ELSE MaskValues_counts_absent(
                    [ masked_text |-> replace(st.masked_text, value.v,
                                              placeholder),
                      mapping  |-> DictSet(st.mapping, placeholder, value.v),
                      counters |-> DictSet(st.counters, pii_type, n),
                      raised   |-> "" ],
                    pii_type, items, j + 1)
\* the inner loop of mask over one category;
\* st = [masked_text, mapping, counters, raised]
RECURSIVE MaskValues(_, _, _, _)
MaskValues(st, pii_type, items, j) ==
    IF j > Len(items) \/ st.raised # "" THEN st
    ELSE LET value == items[j]
         IN  IF ~ Truthy(value) THEN MaskValues(st, pii_type, items, j + 1)
             ELSE IF value.t # "str"            \* TypeError of "in"
             THEN [ st EXCEPT !.raised = "TypeError" ]
             ELSE IF ~ Contains(st.masked_text, value.v)
             THEN MaskValues(st, pii_type, items, j + 1)
             ELSE LET n == DictGet(st.counters, pii_type) + 1
                      placeholder == LLMPlaceholder(pii_type, n)
                  IN  MaskValues(
                        [ masked_text |-> replace(st.masked_text, value.v,
                                                  placeholder),
                          mapping  |-> DictSet(st.mapping, placeholder, value.v),
                          counters |-> DictSet(st.counters, pii_type, n),
                          raised   |-> "" ],
                        pii_type, items, j + 1)

\* the outer loop of mask over detected_pii.items()
RECURSIVE MaskTypes(_, _, _)
MaskTypes(st, detected_pii, i) ==
    IF i > Len(detected_pii) \/ st.raised # "" THEN st
    ELSE LET pii_type == detected_pii[i].k
             values   == detected_pii[i].v
             s1       == [ st EXCEPT !.counters = DictSet(@, pii_type, 0) ]
         IN  IF ~ Truthy(values) THEN MaskTypes(st, detected_pii, i + 1)
             ELSE IF ~ Iterable(values)         \* TypeError of "for"
             THEN [ s1 EXCEPT !.raised = "TypeError" ]
             ELSE MaskTypes(MaskValues(s1, pii_type, Items(values), 1),
                            detected_pii, i + 1)

\* LocalLLMGateway.mask(text, detected_pii), detected_pii = None when not
\* given: the instance afterwards, the exception that left the method if
\* any, the returned masked text and mapping, the final local counters,
\* whether self.mapping was bound to a new dict, whether the returned
\* mapping is a copy, and the inference requests issued
LLMmask(self, text, given, detected_pii, outcome) ==
    LET s0 == [ self EXCEPT !.mapping = <<>> ]
        returned(d, st) ==
            [ self        |-> [ s0 EXCEPT !.mapping = st.mapping ],
              raised      |-> st.raised,
              masked_text |-> IF st.raised # "" THEN <<>> ELSE st.masked_text,
              mapping     |-> IF st.raised # "" THEN <<>> ELSE st.mapping,
              detected    |-> d.detected,
              counters    |-> st.counters,
              rebinds     |-> TRUE,
              copy        |-> TRUE,
              posts       |-> d.posts ]
        loop(d) ==
            returned(d,
                IF d.raised # ""
                THEN [ masked_text |-> text, mapping |-> <<>>,
                       counters |-> <<>>, raised |-> d.raised ]
                ELSE MaskTypes([ masked_text |-> text, mapping |-> s0.mapping,
                                 counters |-> <<>>, raised |-> "" ],
                               d.detected, 1))
    IN  loop(IF given THEN [ raised |-> "", detected |-> detected_pii,
                             posts |-> 0 ]
             ELSE detect_pii(outcome))

\* detect_and_mask that lets mask run its own detection
detect_and_mask_twice(self, text, outcome) ==
    LET returned(d, m) == [ m EXCEPT !.posts = d.posts + m.posts ]
        masked(d) ==
            IF d.raised # ""
            THEN [ self |-> self, raised |-> d.raised, masked_text |-> <<>>,
                   mapping |-> <<>>, detected |-> <<>>, counters |-> <<>>,
                   rebinds |-> FALSE, copy |-> TRUE, posts |-> d.posts ]
            ELSE returned(d, LLMmask(self, text, FALSE, <<>>, outcome))
    IN  masked(detect_pii(outcome))
\* LocalLLMGateway.detect_and_mask(text)
detect_and_mask(self, text, outcome) ==
    LET returned(d, m) == [ m EXCEPT !.posts = d.posts + m.posts ]
        masked(d) ==
            IF d.raised # ""
            THEN [ self |-> self, raised |-> d.raised, masked_text |-> <<>>,
                   mapping |-> <<>>, detected |-> <<>>, counters |-> <<>>,
                   rebinds |-> FALSE, copy |-> TRUE, posts |-> d.posts ]
            ELSE returned(d, LLMmask(self, text, TRUE, d.detected, outcome))
    IN  masked(detect_pii(outcome))


\* self.model, the configured model name
model == << "m" >>
models_key == << "m", "o", "d", "e", "l", "s" >>
name_key   == << "n", "a", "m", "e" >>

\* d.get(key, default) on a parsed JSON object
JGet(d, key, default) ==
    IF key \in Keys(d) THEN DictGet(d, key) ELSE default

\* _check_ollama_available: p is what requests.get ends in
_check_ollama_available(p) == p.status = 200

\* any(m.get("name", "").startswith(self.model) for m in models): the
\* items are examined in order up to the first that matches
RECURSIVE AnyModel(_, _)
AnyModel(items, i) ==
    IF i > Len(items) THEN [ raised |-> "", value |-> FALSE ]
    ELSE IF items[i].t # "obj"                 \* no attribute get
    THEN [ raised |-> "AttributeError", value |-> FALSE ]
    ELSE IF JGet(items[i].v, name_key, JStr(<<>>)).t # "str"
    THEN [ raised |-> "AttributeError", value |-> FALSE ]  \* no startswith
    ELSE IF StartsAt(JGet(items[i].v, name_key, JStr(<<>>)).v, model, 1)
    THEN [ raised |-> "", value |-> TRUE ]
    ELSE AnyModel(items, i + 1)

\* _check_model_available: decode_caught tells whether the decode error of
\* response.json() is a RequestException (it is in requests from 2.27 on,
\* a plain ValueError before)
_check_model_available(p, decode_caught) ==
    LET listed(models) ==
            IF ~ Iterable(models)
            THEN [ raised |-> "TypeError", value |-> FALSE ]
            ELSE AnyModel(Items(models), 1)
        decoded(r) ==
            IF ~ r.ok
            THEN [ raised |-> IF decode_caught THEN "" ELSE "ValueError",
                   value  |-> FALSE ]
            ELSE IF r.val.t # "obj"            \* no attribute get
            THEN [ raised |-> "AttributeError", value |-> FALSE ]
            ELSE listed(JGet(r.val.v, models_key, JList(<<>>)))
    IN  IF p.status # 200 THEN [ raised |-> "", value |-> FALSE ]
        ELSE decoded(json_loads(p.body))

\* get_status: the two probes one after the other
get_status(p1, p2, decode_caught) ==
    LET returned(m) ==
            [ raised |-> m.raised,
              status |-> IF m.raised # "" THEN <<>>
                         ELSE [ ollama_running  |-> _check_ollama_available(p1),
                                model_available |-> m.value ] ]
    IN  returned(_check_model_available(p2, decode_caught))


(***************************************************************************)
(* Inputs.  A text is a concatenation of at most MaxSegs segments.         *)
(***************************************************************************)
MaxSegs == 2

RECURSIVE Concats(_, _)
Concats(segs, n) ==
    IF n = 0 THEN { <<>> }
    ELSE LET shorter == Concats(segs, n - 1)
         IN  shorter \cup { t \o g : t \in shorter, g \in segs }

\* "SSN 123-45-6789"
SegSSN ==
    << "S", "S", "N", " ", "1", "2", "3", "-", "4", "5", "-", "6", "7",
       "8", "9" >>
\* ", call 555-123-4567"
SegPhone ==
    << ",", " ", "c", "a", "l", "l", " ", "5", "5", "5", "-", "1", "2",
       "3", "-", "4", "5", "6", "7" >>
\* "[SSN_1]"
SegToken ==
    << "[", "S", "S", "N", "_", "1", "]" >>
\* "my name is "
SegLeadIn ==
    << "m", "y", " ", "n", "a", "m", "e", " ", "i", "s", " " >>
\* "John Smith"
SegName ==
    << "J", "o", "h", "n", " ", "S", "m", "i", "t", "h" >>
\* "I am "
SegIAm ==
    << "I", " ", "a", "m", " " >>
\* "I'm "
SegIm ==
    << "I", "'", "m", " " >>
\* "name: "
SegNameColon ==
    << "n", "a", "m", "e", ":", " " >>
\* ". "
SegStop ==
    << ".", " " >>
\* texts for the name rules: each lead-in with a name, a lead-in inside the
\* span of another rule, and two rules matching in one text
NameTexts ==
    { SegIAm \o SegName, SegIm \o SegName, SegNameColon \o SegName,
      SegIAm \o SegLeadIn \o SegName,
      SegIm \o SegName \o SegStop \o SegLeadIn \o SegName }
\* ", card 4111111111111111"
SegCard ==
    << ",", " ", "c", "a", "r", "d", " ", "4", "1", "1", "1", "1", "1", "1",
       "1", "1", "1", "1", "1", "1", "1", "1", "1" >>
\* ", mail a@b.co"
SegMail ==
    << ",", " ", "m", "a", "i", "l", " ", "a", "@", "b", ".", "c", "o" >>
\* "@b.co"
SegDomain ==
    << "@", "b", ".", "c", "o" >>
\* texts for the order of the scans: an email before a card, two cards, all
\* categories with the later scanned first, a card number where an email
\* address has its local part
OrderTexts ==
    { SegMail \o SegCard, SegCard \o SegCard,
      SegLeadIn \o SegName \o SegPhone \o SegMail \o SegCard,
      SegCard \o SegDomain }
\* texts where a value stands twice and only one place is a match for its
\* scan: a name without and with a lead-in, a phone number before and
\* after an SSN
RepeatTexts ==
    { SegName \o SegStop \o SegLeadIn \o SegName,
      SegPhone \o SegStop \o SegSSN \o SegPhone }
PGSegs == { SegSSN, SegPhone, SegToken, SegLeadIn, SegName }
PGTexts == Concats(PGSegs, MaxSegs) \cup NameTexts \cup OrderTexts
           \cup RepeatTexts

\* "a"
SegA ==
    << "a" >>
\* "1"
SegOne ==
    << "1" >>
LLMSegs == { SegA, SegOne, SegToken }
LLMTexts == Concats(LLMSegs, MaxSegs)


\* detection results handed to mask(text, detected_pii)
SSN_key   == << "S", "S", "N" >>
names     == << "n", "a", "m", "e", "s" >>
Strs(l)   == JList([ i \in DOMAIN l |-> JStr(l[i]) ])
Detections ==
    { <<>>,
      << [k |-> ssn, v |-> Strs(<< SegA >>)],
         [k |-> names, v |-> Strs(<< SegOne >>)] >>,
      << [k |-> ssn, v |-> Strs(<< SegA >>)],
         [k |-> SSN_key, v |-> Strs(<< SegOne >>)] >>,
      << [k |-> ssn, v |-> Strs(<< SegA >>)],
         [k |-> names, v |-> Strs(<< SegToken >>)] >>,
      << [k |-> ssn, v |-> Strs(<< SegA, SegA >>)] >>,
      << [k |-> ssn, v |-> Strs(<< <<>>, SegOne >>)] >>,
      << [k |-> ssn, v |-> Strs(<< >>)],
         [k |-> names, v |-> Strs(<< SegA >>)] >>,
      << [k |-> names, v |-> Strs(<< SegOne, SegA >>)] >> }

\* replies of the model: a JSON text between two pieces of prose
\* {"ssn": ["a"], "names": ["1"]}
JsonGood ==
    << "{", "\"", "s", "s", "n", "\"", ":", " ", "[", "\"", "a", "\"", "]",
       ",", " ", "\"", "n", "a", "m", "e", "s", "\"", ":", " ", "[", "\"",
       "1", "\"", "]", "}" >>
\* {"ssn": 5}
JsonNumber ==
    << "{", "\"", "s", "s", "n", "\"", ":", " ", "5", "}" >>
\* {"ssn": "a1"}
JsonString ==
    << "{", "\"", "s", "s", "n", "\"", ":", " ", "\"", "a", "1", "\"",
       "}" >>
\* {"ssn": null}
JsonNull ==
    << "{", "\"", "s", "s", "n", "\"", ":", " ", "n", "u", "l", "l", "}" >>
\* {"ssn": [1]}
JsonListOfNumber ==
    << "{", "\"", "s", "s", "n", "\"", ":", " ", "[", "1", "]", "}" >>
\* {"ssn": ["a"]
JsonUnclosed ==
    << "{", "\"", "s", "s", "n", "\"", ":", " ", "[", "\"", "a", "\"",
       "]" >>
\* {"ssn": ["a"], "SSN": ["1"]}
JsonExtraKey ==
    << "{", "\"", "s", "s", "n", "\"", ":", " ", "[", "\"", "a", "\"", "]",
       ",", " ", "\"", "S", "S", "N", "\"", ":", " ", "[", "\"", "1", "\"",
       "]", "}" >>
JsonTexts == { JsonGood, JsonNumber, JsonString, JsonNull,
               JsonListOfNumber, JsonUnclosed, JsonExtraKey }
\* Result: 
ProseBefore ==
    << "R", "e", "s", "u", "l", "t", ":", " " >>
\* see {x}: 
ProseBraceBefore ==
    << "s", "e", "e", " ", "{", "x", "}", ":", " " >>
\*  done
ProseAfter ==
    << " ", "d", "o", "n", "e" >>
\*  {ok}
ProseBraceAfter ==
    << " ", "{", "o", "k", "}" >>
Before  == { <<>>, ProseBefore, ProseBraceBefore }
After   == { <<>>, ProseAfter, ProseBraceAfter }
Replies == { b \o j \o a : b \in Before, j \in JsonTexts \cup { <<>> }, a \in After }
\* what the inference request can end in: a reply, or a transport failure
NoOutcome == [ok |-> FALSE, response |-> <<>>]
Outcomes  == { [ok |-> TRUE, response |-> r] : r \in Replies }
             \cup { NoOutcome }
\* the outcomes tried under a mask call: the bare JSON texts, one reply
\* with prose around the JSON, one without JSON, and the failure
MaskOutcomes ==
    { [ok |-> TRUE, response |-> r] :
        r \in JsonTexts \cup { ProseBefore \o JsonGood \o ProseAfter,
                               ProseBefore } }
    \cup { NoOutcome }

\* the replies of GET /api/tags that the two probes of get_status can meet:
\* status 0 stands for a requests.exceptions.RequestException (connection
\* failure, timeout), else the HTTP status and the body
\* {"models": [{"name": "m:1"}]}
BodyModel ==
    << "{", "\"", "m", "o", "d", "e", "l", "s", "\"", ":", " ", "[", "{",
       "\"", "n", "a", "m", "e", "\"", ":", " ", "\"", "m", ":", "1", "\"",
       "}", "]", "}" >>
\* {"models": [{"name": "x"}]}
BodyOtherModel ==
    << "{", "\"", "m", "o", "d", "e", "l", "s", "\"", ":", " ", "[", "{",
       "\"", "n", "a", "m", "e", "\"", ":", " ", "\"", "x", "\"", "}", "]",
       "}" >>
\* {}
BodyEmpty ==
    << "{", "}" >>
\* []
BodyArray ==
    << "[", "]" >>
\* {"models": null}
BodyModelsNull ==
    << "{", "\"", "m", "o", "d", "e", "l", "s", "\"", ":", " ", "n", "u", "l",
       "l", "}" >>
\* {"models": [{"name": null}]}
BodyNameNull ==
    << "{", "\"", "m", "o", "d", "e", "l", "s", "\"", ":", " ", "[", "{",
       "\"", "n", "a", "m", "e", "\"", ":", " ", "n", "u", "l", "l", "}", "]",
       "}" >>
\* ok
BodyText ==
    << "o", "k" >>
\* {"models": [{"name": "m"}, 1]}
BodyModelThenNumber ==
    << "{", "\"", "m", "o", "d", "e", "l", "s", "\"", ":", " ", "[", "{",
       "\"", "n", "a", "m", "e", "\"", ":", " ", "\"", "m", "\"", "}", ",",
       " ", "1", "]", "}" >>
Bodies == { BodyModel, BodyOtherModel, BodyEmpty, BodyArray,
            BodyModelsNull, BodyNameNull, BodyText, BodyModelThenNumber }
Unreachable == [status |-> 0, body |-> <<>>]
Probes ==
    { Unreachable, [status |-> 500, body |-> <<>>] }
    \cup { [status |-> 200, body |-> b] : b \in Bodies }
\* the first probe reads the status only
FirstProbes == { Unreachable, [status |-> 500, body |-> <<>>],
                 [status |-> 200, body |-> BodyModel] }

\* texts handed to unmask, and mappings given to it by the caller
\* [SSN_12]
SegToken12 ==
    << "[", "S", "S", "N", "_", "1", "2", "]" >>
\* [NAMES_1]
SegNamesToken ==
    << "[", "N", "A", "M", "E", "S", "_", "1", "]" >>
UnmaskSegs  == { SegToken, SegToken12, SegNamesToken, SegA }
UnmaskTexts == Concats(UnmaskSegs, MaxSegs)
GivenMappings ==
    { <<>>,
      << [k |-> SegToken, v |-> SegA] >>,
      << [k |-> SegToken, v |-> SegA], [k |-> SegNamesToken, v |-> SegToken] >>,
      << [k |-> <<>>, v |-> SegA] >> }

(***************************************************************************)
(* One masker instance and its caller.                                     *)
(*   kind    the class of the instance                                     *)
(*   self    the instance: mapping (and counters, for PrivacyGateway)      *)
(*   op      the method the caller has just run, "idle" between calls      *)
(*   arg     its arguments and the instance before the call                *)
(*   ret     what it returned, or the exception that left it               *)
(*   held    the mappings returned to the caller that it still holds:      *)
(*           d the dict now, snap the dict when returned, alias whether    *)
(*           it is the very object self.mapping refers to                  *)
(*   reqs    the requests of the web caller that are inside mask on the    *)
(*           shared instance (none for a caller with one thread)           *)
(*   recent  how the instance's mapping was last set: "none" since         *)
(*           construction, "mask" by a mask call that returned,            *)
(*           "mask_raised" by one that raised, "reset" by reset            *)
(***************************************************************************)
VARIABLES kind, self, op, arg, ret, held, reqs, recent
vars == << kind, self, op, arg, ret, held, reqs, recent >>

NoArg == [ text |-> <<>>, given |-> FALSE, detected |-> <<>>,
           outcome |-> NoOutcome, src |-> "", mapping |-> <<>>,
           before |-> <<>>, probes |-> <<>> ]
NoRet == [ raised |-> "", text |-> <<>>, mapping |-> <<>>, detected |-> <<>>,
           counters |-> <<>>, posts |-> 0, status |-> <<>> ]

Init ==
    /\ kind \in { "PrivacyGateway", "LocalLLMGateway" }
    /\ self = IF kind = "PrivacyGateway" THEN PrivacyGateway ELSE LocalLLMGateway
    /\ op = "idle"
    /\ arg = NoArg
    /\ ret = NoRet
    /\ held = <<>>
    /\ reqs = <<>>
    /\ recent = "none"

\* what a method that changes self.mapping does to the dicts the caller
\* holds: a held dict that is the instance's own dict follows it unless the
\* method bound self.mapping to a new dict
HeldAfter(rebinds, newself) ==
    [ i \in DOMAIN held |->
        IF held[i].alias
        THEN IF rebinds THEN [ held[i] EXCEPT !.alias = FALSE ]
             ELSE [ held[i] EXCEPT !.d = newself.mapping ]
        ELSE held[i] ]

\* the caller receives the mapping of a mask call
Receive(r) ==
    IF r.raised # "" THEN HeldAfter(r.rebinds, r.self)
    ELSE Append(HeldAfter(r.rebinds, r.self),
                [ d |-> r.mapping, snap |-> r.mapping, alias |-> ~ r.copy ])

\* masked_text, mapping = regex_gateway.mask(text)
Mask(text) ==
    /\ kind = "PrivacyGateway" /\ op = "idle"
    /\ LET returns(r) ==
               /\ self' = r.self
               /\ ret' = [ NoRet EXCEPT !.text = r.masked_text,
                                        !.mapping = r.mapping,
                                        !.counters = r.self.counters ]
               /\ held' = Receive(r)
       IN  returns(PGmask(self, text))
    /\ op' = "mask"
    /\ recent' = "mask"
    /\ arg' = [ NoArg EXCEPT !.text = text, !.before = self ]
    /\ UNCHANGED << kind, reqs >>

\* gateway.reset()
Reset ==
    /\ kind = "PrivacyGateway" /\ op = "idle"
    /\ self' = reset(self)
    /\ op' = "reset"
    /\ recent' = "reset"
    /\ arg' = [ NoArg EXCEPT !.before = self ]
    /\ ret' = NoRet
    /\ held' = HeldAfter(TRUE, reset(self))
    /\ UNCHANGED << kind, reqs >>

\* unmask that takes an empty mapping when none is given
Unmask_no_default(text, src, given) ==
    /\ op = "idle"
    /\ src = "held" => held # <<>>
    /\ LET mapping == CASE src = "self"  -> <<>>
                        [] src = "held"  -> held[Len(held)].d
                        [] src = "given" -> given
       IN  /\ arg' = [ NoArg EXCEPT !.text = text, !.src = src,
                                    !.mapping = mapping, !.before = self ]
           /\ ret' = [ NoRet EXCEPT !.text = unmask(text, mapping) ]
    /\ op' = "unmask"
    /\ UNCHANGED << kind, self, held, reqs, recent >>
\* gateway.unmask(text) / gateway.unmask(text, mapping): the mapping is the
\* instance's own (None), the one the caller holds, or any other
Unmask(text, src, given) ==
    /\ op = "idle"
    /\ src = "held" => held # <<>>
    /\ LET mapping == CASE src = "self"  -> self.mapping
                        [] src = "held"  -> held[Len(held)].d
                        [] src = "given" -> given
       IN  /\ arg' = [ NoArg EXCEPT !.text = text, !.src = src,
                                    !.mapping = mapping, !.before = self ]
           /\ ret' = [ NoRet EXCEPT !.text = unmask(text, mapping) ]
    /\ op' = "unmask"
    /\ UNCHANGED << kind, self, held, reqs, recent >>

\* gateway.mask(text, detected_pii) and gateway.mask(text)
LLMMask(text, given, detected_pii, outcome) ==
    /\ kind = "LocalLLMGateway" /\ op = "idle"
    /\ LET returns(r) ==
               /\ self' = r.self
               /\ ret' = [ raised |-> r.raised, text |-> r.masked_text,
                           mapping |-> r.mapping, detected |-> r.detected,
                           counters |-> r.counters, posts |-> r.posts,
                           status |-> <<>> ]
               /\ held' = Receive(r)
               /\ recent' = IF ~ r.rebinds THEN recent
                            ELSE IF r.raised = "" THEN "mask"
                            ELSE "mask_raised"
       IN  returns(LLMmask(self, text, given, detected_pii, outcome))
    /\ op' = "mask"
    /\ arg' = [ NoArg EXCEPT !.text = text, !.given = given,
                             !.detected = detected_pii,
                             !.outcome = outcome, !.before = self ]
    /\ UNCHANGED << kind, reqs >>

\* gateway.detect_pii(text)
DetectPii(outcome) ==
    /\ kind = "LocalLLMGateway" /\ op = "idle"
    /\ LET returns(r) ==
               ret' = [ NoRet EXCEPT !.raised = r.raised,
                                     !.detected = r.detected,
                                     !.posts = r.posts ]
       IN  returns(detect_pii(outcome))
    /\ op' = "detect_pii"
    /\ arg' = [ NoArg EXCEPT !.outcome = outcome, !.before = self ]
    /\ UNCHANGED << kind, self, held, reqs, recent >>

\* detected, masked_input, mapping = gateway.detect_and_mask(text)
DetectAndMask(text, outcome) ==
    /\ kind = "LocalLLMGateway" /\ op = "idle"
    /\ LET returns(r) ==
               /\ self' = r.self
               /\ ret' = [ raised |-> r.raised, text |-> r.masked_text,
                           mapping |-> r.mapping, detected |-> r.detected,
                           counters |-> r.counters, posts |-> r.posts,
                           status |-> <<>> ]
               /\ held' = Receive(r)
               /\ recent' = IF ~ r.rebinds THEN recent
                            ELSE IF r.raised = "" THEN "mask"
                            ELSE "mask_raised"
       IN  returns(detect_and_mask(self, text, outcome))
    /\ op' = "detect_and_mask"
    /\ arg' = [ NoArg EXCEPT !.text = text, !.outcome = outcome,
                             !.before = self ]
    /\ UNCHANGED << kind, reqs >>

\* status = gateway.get_status()
GetStatus(p1, p2, decode_caught) ==
    /\ kind = "LocalLLMGateway" /\ op = "idle"
    /\ LET returns(r) ==
               ret' = [ NoRet EXCEPT !.raised = r.raised, !.status = r.status ]
       IN  returns(get_status(p1, p2, decode_caught))
    /\ op' = "get_status"
    /\ arg' = [ NoArg EXCEPT !.probes = << p1, p2 >>, !.before = self ]
    /\ UNCHANGED << kind, self, held, reqs, recent >>

\* the caller has used the result; it keeps the latest mapping only
Done ==
    /\ op # "idle"
    /\ op' = "idle"
    /\ arg' = NoArg
    /\ ret' = NoRet
    /\ held' = IF held = <<>> THEN <<>> ELSE << held[Len(held)] >>
    /\ UNCHANGED << kind, self, reqs, recent >>

Next ==
    \/ \E text \in PGTexts : Mask(text)
    \/ Reset
    \/ \E text \in UnmaskTexts, src \in { "self", "held" } :
          Unmask(text, src, <<>>)
    \/ \E text \in UnmaskTexts, given \in GivenMappings :
          Unmask(text, "given", given)
    \/ \E text \in LLMTexts, d \in Detections :
          LLMMask(text, TRUE, d, NoOutcome)
    \/ \E text \in LLMTexts, outcome \in MaskOutcomes :
          LLMMask(text, FALSE, <<>>, outcome)
    \/ \E outcome \in Outcomes : DetectPii(outcome)
    \/ \E text \in LLMTexts, outcome \in MaskOutcomes :
          DetectAndMask(text, outcome)
    \/ \E p1 \in FirstProbes, p2 \in Probes, decode_caught \in BOOLEAN :
          GetStatus(p1, p2, decode_caught)
    \/ Done

Spec == Init /\ [][Next]_vars

(***************************************************************************)
(* The web caller: process() of two requests running in two threads of the *)
(* server, both calling regex_gateway.mask(user_input) on the one          *)
(* module-level instance.  A request is at one of the statements of mask:  *)
(* the reset, the five scans, the copy of the mapping.                     *)
(***************************************************************************)
Requests == { 1, 2 }
WebTexts == { SegSSN, SegLeadIn \o SegName, SegPhone }
ScanOrder == << "credit_cards", "ssn", "emails", "phones", "names" >>

\* self._mask_<category>(masked_text)
scan(category, this, text) ==
    CASE category = "credit_cards" -> _mask_credit_cards(this, text)
      [] category = "ssn"          -> _mask_ssn(this, text)
      [] category = "emails"       -> _mask_emails(this, text)
      [] category = "phones"       -> _mask_phone_numbers(this, text)
      [] category = "names"        -> _mask_names(this, text)

InitWeb ==
    /\ kind = "PrivacyGateway"
    /\ self = PrivacyGateway
    /\ op = "idle"
    /\ arg = NoArg
    /\ ret = NoRet
    /\ held = <<>>
    /\ reqs \in [ Requests -> { [ pc |-> 0, text |-> t, masked_text |-> <<>>,
                                   mapping |-> <<>> ] : t \in WebTexts } ]
    /\ recent = "none"

\* self.reset(); masked_text = text
WebReset(r) ==
    /\ reqs[r].pc = 0
    /\ self' = reset(self)
    /\ reqs' = [ reqs EXCEPT ![r].pc = 1, ![r].masked_text = reqs[r].text ]
    /\ UNCHANGED << kind, op, arg, ret, held, recent >>

\* masked_text = self._mask_<category>(masked_text), the next of the five
WebScan(r) ==
    /\ reqs[r].pc \in DOMAIN ScanOrder
    /\ LET scanned(s) ==
               /\ self' = s.self
               /\ reqs' = [ reqs EXCEPT ![r].pc = @ + 1,
                                        ![r].masked_text = s.out ]
       IN  scanned(scan(ScanOrder[reqs[r].pc], self, reqs[r].masked_text))
    /\ UNCHANGED << kind, op, arg, ret, held, recent >>

\* return masked_text, self.mapping.copy()
WebCopy(r) ==
    /\ reqs[r].pc = Len(ScanOrder) + 1
    /\ reqs' = [ reqs EXCEPT ![r].pc = @ + 1, ![r].mapping = self.mapping ]
    /\ UNCHANGED << kind, self, op, arg, ret, held, recent >>

NextWeb == \E r \in Requests : WebReset(r) \/ WebScan(r) \/ WebCopy(r)

SpecWeb == InitWeb /\ [][NextWeb]_vars


(***************************************************************************)
(* The claims.                                                             *)
(***************************************************************************)
IsMask == op \in { "mask", "detect_and_mask" }

\* C1: round trip of the pattern-based masker: for every text T, also one
\* that holds placeholder-shaped tokens, unmask(mask(T)) gives T back.
C1_RoundTripPattern ==
    (kind = "PrivacyGateway" /\ op = "mask")
        => unmask(ret.text, ret.mapping) = arg.text

\* the detection result is an object of lists of strings
WellFormed(detected) ==
    \A i \in DOMAIN detected :
        /\ detected[i].v.t = "list"
        /\ \A j \in DOMAIN detected[i].v.v : detected[i].v.v[j].t = "str"

\* C2: round trip of the model-assisted masker: for every text T and every
\* detection result D of lists of strings, unmask(mask(T, D)) gives T back.
C2_RoundTripModel ==
    (kind = "LocalLLMGateway" /\ op = "mask" /\ arg.given
       /\ WellFormed(arg.detected) /\ ret.raised = "")
        => unmask(ret.text, ret.mapping) = arg.text

SSNValue   == SubSeq(SegSSN, 5, Len(SegSSN))          \* "123-45-6789"
PhoneValue == SubSeq(SegPhone, 8, Len(SegPhone))      \* "555-123-4567"
PhoneToken == << "[", "P", "H", "O", "N", "E", "_", "1", "]" >>

\* C3: masking "SSN 123-45-6789, call 555-123-4567" gives a mapping with
\* exactly the entries [SSN_1] -> the SSN and [PHONE_1] -> the phone number,
\* and both are replaced in the masked text.
C3_SsnPhoneDisambiguation ==
    (kind = "PrivacyGateway" /\ op = "mask" /\ arg.text = SegSSN \o SegPhone)
        => /\ Range(ret.mapping) = { [k |-> SegToken, v |-> SSNValue],
                                     [k |-> PhoneToken, v |-> PhoneValue] }
           /\ Len(ret.mapping) = 2
           /\ ret.text = SubSeq(SegSSN, 1, 4) \o SegToken
                         \o SubSeq(SegPhone, 1, 7) \o PhoneToken

\* what a new instance returns for the arguments of the call just made
FreshResult ==
    IF kind = "PrivacyGateway" THEN PGmask(PrivacyGateway, arg.text)
    ELSE IF op = "detect_and_mask"
         THEN detect_and_mask(LocalLLMGateway, arg.text, arg.outcome)
         ELSE LLMmask(LocalLLMGateway, arg.text, arg.given, arg.detected,
                      arg.outcome)

\* C4: session reset: whatever mask calls came before on the instance, a
\* mask call ends as it ends on a new instance for the same input: the same
\* exception if any, else the same masked text and mapping, with the
\* instance's mapping and counters as a new instance has them afterwards.
C4_SessionReset ==
    IsMask => /\ ret.raised = FreshResult.raised
              /\ ret.raised = "" => /\ ret.text = FreshResult.masked_text
                                    /\ ret.mapping = FreshResult.mapping
                                    /\ self = FreshResult.self

\* C4 witness: a mask call on an instance that held the entries of an
\* earlier call returned a different, non-empty mapping.
C4_Witness ==
    /\ IsMask /\ ret.raised = ""
    /\ arg.before.mapping # <<>>
    /\ ret.mapping # <<>>
    /\ ret.mapping # arg.before.mapping

\* the assignments of the call just made, as pairs << category, number >>,
\* from the counters the method keeps
Assignments ==
    IF kind = "PrivacyGateway"
    THEN { << c, i >> \in PGTypes \X (1..Len(ret.mapping) + 1) :
             i \in 1..ret.counters[c] }
    ELSE { << c, i >> \in Keys(ret.counters) \X (1..Len(ret.mapping) + 1) :
             i \in 1..DictGet(ret.counters, c) }
Token(c, i) == << "[" >> \o upper(c) \o << "_" >> \o str(i) \o << "]" >>

\* C5: within one mask call the assignments yield distinct keys of the shape
\* "[" + uppercased category + "_" + N + "]", numbered 1..k per category
\* with k the number of replacements of the category: the keys of the
\* mapping are exactly those tokens, one per assignment.
C5_PlaceholderNumbering ==
    (IsMask /\ ret.raised = "")
        => /\ Keys(ret.mapping) = { Token(a[1], a[2]) : a \in Assignments }
           /\ Len(ret.mapping) = Cardinality(Assignments)

\* C6: a mapping returned by mask is never changed by a later mask, reset
\* or unmask on the instance: every mapping the caller holds has the
\* entries it had when it was returned.
C6_SnapshotIndependence ==
    \A i \in DOMAIN held : held[i].d = held[i].snap

\* C6 witness: the caller holds a non-empty mapping P of an earlier mask
\* call, and a later mask call has run and returned a different mapping.
C6_Witness ==
    /\ IsMask /\ Len(held) = 2
    /\ held[1].snap # <<>>
    /\ held[2].snap # held[1].snap
    /\ self.mapping # held[1].snap

NoKeyOccurs(text, mapping) ==
    \A k \in Keys(mapping) : ~ Contains(text, k)

\* C7: unmask touches known placeholders only: when no key of the mapping
\* occurs in the text, unmask returns the text unchanged and raises nothing.
C7_UnmaskUnknownIsNoOp ==
    (op = "unmask" /\ NoKeyOccurs(arg.text, arg.mapping))
        => (ret.text = arg.text /\ ret.raised = "")

\* C7 witness: unmask ran on a text with a placeholder that is not in the
\* non-empty mapping.
C7_Witness ==
    /\ op = "unmask" /\ arg.mapping # <<>>
    /\ NoKeyOccurs(arg.text, arg.mapping)
    /\ Contains(arg.text, SegToken12)
    /\ SegToken \in Keys(arg.mapping)

\* the orders in which the entries of a dict can be applied
Orders(d) ==
    { [ i \in DOMAIN d |-> d[p[i]] ] :
        p \in { q \in [ DOMAIN d -> DOMAIN d ] :
                  \A i, j \in DOMAIN d : q[i] = q[j] => i = j } }

\* C8: for a mapping returned by a mask call and any text, unmask gives the
\* same result in whatever order the entries are applied.
C8_UnmaskOrderIndependent ==
    (op = "unmask" /\ arg.src = "held")
        => \A o \in Orders(arg.mapping) : unmask(arg.text, o) = ret.text

\* the "}" that closes the "{" at position i, 0 when there is none
RECURSIVE BalancedEnd(_, _, _)
BalancedEnd(s, i, depth) ==
    IF i > Len(s) THEN 0
    ELSE IF s[i] = "}" THEN IF depth = 1 THEN i ELSE BalancedEnd(s, i + 1, depth - 1)
    ELSE IF s[i] = "{" THEN BalancedEnd(s, i + 1, depth + 1)
    ELSE BalancedEnd(s, i + 1, depth)
\* the positions where a balanced, valid JSON object starts
ObjectStarts(s) ==
    { i \in DOMAIN s :
        /\ s[i] = "{"
        /\ BalancedEnd(s, i + 1, 1) # 0
        /\ json_loads(Slice(s, i, BalancedEnd(s, i + 1, 1) + 1)).ok }
FirstObject(s) ==
    json_loads(Slice(s, Min(ObjectStarts(s)),
                     BalancedEnd(s, Min(ObjectStarts(s)) + 1, 1) + 1)).val.v

\* C9: for a reply that embeds a valid JSON object in prose, prose that may
\* hold "{" or "}", detect_pii returns the parsed content of the first
\* balanced JSON object.
C9_TolerantParsing ==
    (op = "detect_pii" /\ arg.outcome.ok
       /\ ObjectStarts(arg.outcome.response) # {})
        => (ret.raised = "" /\ ret.detected = FirstObject(arg.outcome.response))

\* the payload of a reply is malformed: no JSON object, unparseable JSON,
\* or a category value that is not a list of strings
Malformed(response) ==
    \/ ObjectStarts(response) = {}
    \/ ~ WellFormed(extract_json(response))

\* C10: for every reply the backend returns, detect_pii followed by mask
\* raises nothing, and a malformed payload gives an empty mapping and the
\* text unchanged.
C10_MalformedPayloadNeverRaises ==
    (IsMask /\ ~ arg.given /\ arg.outcome.ok)
        => /\ ret.raised = ""
           /\ Malformed(arg.outcome.response)
                => (ret.mapping = <<>> /\ ret.text = arg.text)


\* C11: extra keys ignored: when the detection result holds a key outside
\* the eight fixed categories, mask assigns no placeholder for the values
\* of that key (its counter stays at 0) and keeps no mapping entry for it.
C11_ExtraKeysIgnored ==
    (kind = "LocalLLMGateway" /\ IsMask /\ ret.raised = "")
        => \A c \in Keys(ret.counters) \ FixedCategories :
              /\ DictGet(ret.counters, c) = 0
              /\ Token(c, 1) \notin Keys(ret.mapping)


\* C12: the health probe never raises: whatever the two probes end in
\* (connection failure, timeout, non-200 status, 200 with any body),
\* get_status returns a result, and when the endpoint is unreachable the
\* result is ollama_running = FALSE and model_available = FALSE.
C12_HealthProbeNeverRaises ==
    op = "get_status"
        => /\ ret.raised = ""
           /\ (arg.probes = << Unreachable, Unreachable >>)
                => ret.status = [ ollama_running  |-> FALSE,
                                  model_available |-> FALSE ]


\* an inference request was part of the call just made
Infers ==
    /\ kind = "LocalLLMGateway"
    /\ \/ op \in { "detect_pii", "detect_and_mask" }
       \/ op = "mask" /\ ~ arg.given

\* C13: when the inference request times out or fails at transport level,
\* detect_pii, mask and detect_and_mask end in the RuntimeError of
\* _call_ollama after exactly one request: no empty detection result is
\* returned for the failure and no second request is made.
C13_BackendUnreachableSurfaced ==
    (Infers /\ ~ arg.outcome.ok)
        => (ret.raised = "RuntimeError" /\ ret.posts = 1)

\* C13 witness: detect_and_mask met a failed request on an instance that
\* held the mapping of an earlier call.
C13_Witness ==
    /\ op = "detect_and_mask" /\ ~ arg.outcome.ok
    /\ ret.raised = "RuntimeError"
    /\ arg.before.mapping # <<>>

\* C14: detect_and_mask issues exactly one inference request and its masked
\* text and mapping are those of mask run on the detection result it
\* returns; mask with a detection result issues none, mask without one
\* issues exactly one.
C14_SingleInference ==
    /\ op = "detect_and_mask"
         => /\ ret.posts = 1
            /\ ret.raised # "RuntimeError"
                 => LET m == LLMmask(arg.before, arg.text, TRUE, ret.detected,
                                     NoOutcome)
                    IN  /\ ret.raised = m.raised
                        /\ ret.text = m.masked_text
                        /\ ret.mapping = m.mapping
    /\ (kind = "LocalLLMGateway" /\ op = "mask")
         => ret.posts = IF arg.given THEN 0 ELSE 1

\* C14 witness: detect_and_mask returned a non-empty mapping.
C14_Witness ==
    /\ op = "detect_and_mask" /\ ret.raised = ""
    /\ ret.mapping # <<>> /\ ret.detected # <<>>


\* C15: request isolation: for every interleaving of the statements of the
\* mask calls of two requests running at the same time, the masked text and
\* the mapping a request gets are those it gets when it runs alone.
C15_RequestIsolation ==
    \A r \in DOMAIN reqs :
        reqs[r].pc = Len(ScanOrder) + 2
            => /\ reqs[r].masked_text
                    = PGmask(PrivacyGateway, reqs[r].text).masked_text
               /\ reqs[r].mapping
                    = PGmask(PrivacyGateway, reqs[r].text).mapping


\* the lead-in parts of the name rules, and the first NAME placeholder
LeadIns ==
    [ i \in DOMAIN name_patterns |->
        SubSeq(name_patterns[i], 1, Len(name_patterns[i]) - Len(NameSpan)) ]
NameOpen  == << "[", "N", "A", "M", "E", "_" >>
NameToken == << "[", "N", "A", "M", "E", "_", "1", "]" >>
\* the masked text has a lead-in phrase right before the placeholder k, and
\* the text had the same phrase right before the value v
KeepsLeadIn(text, masked, k, v) ==
    \E i \in DOMAIN LeadIns, p \in DOMAIN masked :
        LET e == Match(LeadIns[i], masked, p, p)
        IN  /\ e # <<>>
            /\ StartsAt(masked, k, e[1])
            /\ Contains(text, Slice(masked, p, e[1]) \o v)

\* C16: name extraction keeps the lead-in: every name placeholder of the
\* masked text stands right after a lead-in phrase ("my name is", "I'm",
\* "I am", "name:") kept as written, in place of the name span that is its
\* mapping value; "my name is John Smith" gives "my name is [NAME_1]" and
\* the single entry [NAME_1] -> "John Smith".
C16_NameKeepsLeadIn ==
    (kind = "PrivacyGateway" /\ op = "mask")
        => /\ \A j \in DOMAIN ret.mapping :
                 StartsAt(ret.mapping[j].k, NameOpen, 1)
                     => KeepsLeadIn(arg.text, ret.text, ret.mapping[j].k,
                                    ret.mapping[j].v)
           /\ arg.text = SegLeadIn \o SegName
                 => /\ ret.text = SegLeadIn \o NameToken
                    /\ ret.mapping = << [k |-> NameToken, v |-> SegName] >>


\* the values of a detection result of lists of strings, in the order of
\* its categories and of each category's values, as pairs
\* << category, value >>
RECURSIVE Flat(_, _)
Flat(detected, i) ==
    IF i > Len(detected) THEN <<>>
    ELSE [ j \in DOMAIN detected[i].v.v |->
             << detected[i].k, detected[i].v.v[j].v >> ]
         \o Flat(detected, i + 1)
\* the numbers taken so far in a category
Taken(nums, c) == IF c \in Keys(nums) THEN DictGet(nums, c) ELSE 0
\* the substitution as the claim words it, value by value
RECURSIVE Substituted(_, _, _)
Substituted(pairs, i, st) ==
    IF i > Len(pairs) THEN st
    ELSE LET c == pairs[i][1]
             v == pairs[i][2]
             k == Token(c, Taken(st.nums, c) + 1)
         IN  IF v = <<>> \/ ~ Contains(st.text, v)
             THEN Substituted(pairs, i + 1, st)
             ELSE Substituted(pairs, i + 1,
                    [ text    |-> replace(st.text, v, k),
                      mapping |-> DictSet(st.mapping, k, v),
                      nums    |-> DictSet(st.nums, c, Taken(st.nums, c) + 1) ])

\* C17: substitution from a detection result of lists of strings: the
\* values are taken category by category and in order; a non-empty value
\* found in the text as masked so far gets the next placeholder of its
\* category, is recorded, and has all its occurrences replaced; an empty
\* or absent value is skipped, with no error, no entry and no number used.
C17_Substitution ==
    (kind = "LocalLLMGateway" /\ op = "mask" /\ arg.given
       /\ WellFormed(arg.detected))
        => LET s == Substituted(Flat(arg.detected, 1), 1,
                       [ text |-> arg.text, mapping |-> <<>>, nums |-> <<>> ])
           IN  /\ ret.raised = ""
               /\ ret.text = s.text
               /\ ret.mapping = s.mapping
               /\ \A c \in Keys(ret.counters) :
                     DictGet(ret.counters, c) = Taken(s.nums, c)

\* C17 witness: of the values "1" and "a" of one category, the absent "1"
\* was skipped and both occurrences of "a" were replaced by [NAMES_1].
C17_Witness ==
    /\ kind = "LocalLLMGateway" /\ op = "mask" /\ arg.given
    /\ arg.text = SegA \o SegA
    /\ arg.detected = << [k |-> names, v |-> Strs(<< SegOne, SegA >>)] >>
    /\ ret.text = SegNamesToken \o SegNamesToken
    /\ ret.mapping = << [k |-> SegNamesToken, v |-> SegA] >>


\* what the phone scan of mask(text) receives: the instance and the text
\* after the credit card, SSN and email scans
PhoneIn(text) ==
    LET s1 == _mask_credit_cards(reset(PrivacyGateway), text)
        s2 == _mask_ssn(s1.self, s1.out)
    IN  _mask_emails(s2.self, s2.out)
\* the phone matches in a text, and those with no "[SSN_" before them
PhoneMatches(t) == finditer(phone_pattern, t)
PhoneKept(t) ==
    SelectSeq(PhoneMatches(t),
              LAMBDA m : ~ Contains(Slice(t, 1, m.s), SSNOpen))
\* the text with the n-th kept match replaced by [PHONE_n]
RECURSIVE PhoneText(_, _, _, _, _)
PhoneText(t, ms, j, pos, n) ==
    IF j > Len(ms) THEN Slice(t, pos, Len(t) + 1)
    ELSE IF Contains(Slice(t, 1, ms[j].s), SSNOpen)
    THEN Slice(t, pos, ms[j].e) \o PhoneText(t, ms, j + 1, ms[j].e, n)
    ELSE Slice(t, pos, ms[j].s) \o Token(phone, n + 1)
         \o PhoneText(t, ms, j + 1, ms[j].e, n + 1)
PhoneEntries(mapping) ==
    SelectSeq(mapping, LAMBDA e : StartsAt(e.k, << "[", "P", "H", "O", "N", "E", "_" >>, 1))

CategoryOrder == << credit_card, ssn, email, phone, name >>
Rank(k) ==
    CHOOSE i \in DOMAIN CategoryOrder :
        StartsAt(k, << "[" >> \o upper(CategoryOrder[i]) \o << "_" >>, 1)
\* where a placeholder stands in a text
Where(t, k) == { p \in 1..Len(t) : StartsAt(t, k, p) }
\* the entries of each category stand in the text from left to right
LeftToRight(t, mapping) ==
    \A i \in 1..(Len(mapping) - 1) :
        Rank(mapping[i].k) = Rank(mapping[i + 1].k)
            => /\ Where(t, mapping[i].k) # {}
               /\ Where(t, mapping[i + 1].k) # {}
               /\ Min(Where(t, mapping[i].k)) < Min(Where(t, mapping[i + 1].k))
\* no match of the pattern in the text shares a character with one of the
\* placeholders
Opaque(pat, t, keys) ==
    LET ms == finditer(pat, t)
    IN  \A j \in DOMAIN ms : \A k \in keys : \A p \in Where(t, k) :
            ~ (p < ms[j].e /\ ms[j].s < p + Len(k))
\* the instance and the text before the i-th rule of the name scan
RECURSIVE RuleIn(_, _)
RuleIn(s4, i) ==
    IF i = 1 THEN s4
    ELSE LET before == RuleIn(s4, i - 1)
         IN  re_sub(name_patterns[i - 1], "replace_name", before.out,
                    before.self)

\* C19: fixed scan order: mask runs the scans credit card, SSN, email,
\* phone, name, each on the output of the one before; the returned mapping
\* lists the credit card entries first, then the SSN, email, phone and name
\* entries, each group in left-to-right match order (read off the returned
\* text when the input holds no bracket of its own); no later scan matches
\* inside or across a placeholder written by an earlier scan.
C19_FixedScanOrder ==
    (kind = "PrivacyGateway" /\ op = "mask")
        => LET s1 == _mask_credit_cards(reset(arg.before), arg.text)
               s2 == _mask_ssn(s1.self, s1.out)
               s3 == _mask_emails(s2.self, s2.out)
               s4 == _mask_phone_numbers(s3.self, s3.out)
               s5 == _mask_names(s4.self, s4.out)
           IN  /\ ret.text = s5.out /\ ret.mapping = s5.self.mapping
               /\ \A i \in 1..(Len(ret.mapping) - 1) :
                     Rank(ret.mapping[i].k) <= Rank(ret.mapping[i + 1].k)
               /\ ~ Contains(arg.text, << "[" >>)
                     => LeftToRight(ret.text, ret.mapping)
               /\ Opaque(ssn_pattern, s1.out, Keys(s1.self.mapping))
               /\ Opaque(email_pattern, s2.out, Keys(s2.self.mapping))
               /\ Opaque(phone_pattern, s3.out, Keys(s3.self.mapping))
               /\ \A i \in DOMAIN name_patterns :
                     Opaque(name_patterns[i], RuleIn(s4, i).out,
                            Keys(s4.self.mapping))


\* the mapping the most recent mask call returned
LastReturned == IF recent = "none" THEN <<>> ELSE held[Len(held)].snap

C21_NoValueLeft ==
    (IsMask /\ ret.raised = "")
        => \A i \in DOMAIN ret.mapping :
              ~ Contains(ret.text, ret.mapping[i].v)


\* C22: status consistency: in every result of get_status, model_available
\* true implies ollama_running true, whatever the endpoint answers to the
\* first and to the second of the two probe requests.
C22_StatusConsistency ==
    (op = "get_status" /\ ret.raised = "")
        => (ret.status.model_available => ret.status.ollama_running)


\* C23: conditional round trip of the pattern-based masker: for every
\* input text T without "[", no value of the mapping of mask(T) holds a
\* "[", each key of the mapping occurs exactly once in the masked text,
\* and unmask of the masked text with the mapping gives T.
C23_ConditionalRoundTrip ==
    (kind = "PrivacyGateway" /\ op = "mask"
     /\ ~ Contains(arg.text, << "[" >>))
        => /\ \A i \in DOMAIN ret.mapping :
                 /\ ~ Contains(ret.mapping[i].v, << "[" >>)
                 /\ Cardinality(Where(ret.text, ret.mapping[i].k)) = 1
           /\ unmask(ret.text, ret.mapping) = arg.text

\* C23 witness: a text without "[" was masked with entries of two
\* categories, one of them a name after its lead-in, and unmask gives the
\* text back.
C23_Witness ==
    /\ kind = "PrivacyGateway" /\ op = "mask"
    /\ ~ Contains(arg.text, << "[" >>)
    /\ \E i, j \in DOMAIN ret.mapping :
          /\ Rank(ret.mapping[i].k) # Rank(ret.mapping[j].k)
          /\ Rank(ret.mapping[j].k) = Len(CategoryOrder)
    /\ ret.text # arg.text
    /\ unmask(ret.text, ret.mapping) = arg.text

====
